---- MODULE Spec2Model ----
(***************************************************************************)
(* Model of the 2D rigid-body engine of niuee/bolt:                        *)
(*   src/src/2dphysics/rigidbody.ts  BaseRigidBody, Circle, Polygon        *)
(*   src/unnamed/part_000            an earlier revision of rigidbody.ts   *)
(*   src/src/2dphysics/world.ts      World                                 *)
(*                                                                         *)
(* Numbers.  The program computes in IEEE doubles.  The model computes in  *)
(* fixed point: every scalar is an integer counting units of 1/Scale, so   *)
(* 9.81 is 9810 and the friction coefficient 0.3 is 300.  Products and     *)
(* quotients are rescaled and truncated toward zero (symmetric in the      *)
(* sign, as floating-point rounding is).  The inputs are chosen so that    *)
(* the arithmetic the properties depend on is exact.                       *)
(***************************************************************************)
EXTENDS Integers, Sequences, FiniteSets, TLC

VARIABLES
    heap,                 \* the body objects, by object identity
    rigidBodyList,        \* World.rigidBodyList
    rigidBodyMap,         \* World.rigidBodyMap, entries in insertion order
    quadTree,             \* World.quadTree
    phase,                \* position inside World.step, "idle" outside it
    tickList,             \* the local rigidBodyList of World.step
    tickDt,               \* the deltaTime of the running World.step
    possibleCombinations, \* the local possibleCombinations of World.step
    log,                  \* what the running (or last) World.step has done so far
    lastOp,               \* the last call made
    prev,                 \* heap before the last call
    pure,                 \* only applyForce and step have been called so far
    nCalls,               \* calls made so far
    pending,              \* the forces applied to body 1 since its last step, in call order
    latest,               \* per identifier, the body of its last add; 0 after a remove
    firstAdded,           \* <<i, j>>: identifier i was mapped before j was, both still are
    returned              \* the argument and the return value of the last query

bodyVars == <<heap, lastOp, prev, pure, nCalls, pending, returned>>

worldVars == <<rigidBodyList, rigidBodyMap, quadTree, phase, tickList, tickDt,
               possibleCombinations, log, latest, firstAdded>>

vars == <<heap, rigidBodyList, rigidBodyMap, quadTree, phase, tickList, tickDt,
          possibleCombinations, log, lastOp, prev, pure, nCalls, pending, latest,
          firstAdded, returned>>

(***************************************************************************)
(* Fixed-point arithmetic                                                  *)
(***************************************************************************)
\* three decimal digits
Scale == 10 * 10 * 10

Abs(a) == IF a < 0 THEN -a ELSE a

Sign(a) == IF a < 0 THEN -1 ELSE IF a > 0 THEN 1 ELSE 0

Min(a, b) == IF a < b THEN a ELSE b

Max(a, b) == IF a > b THEN a ELSE b

\* integer quotient truncated toward zero (b # 0)
TruncDiv(a, b) == Sign(a) * Sign(b) * (Abs(a) \div Abs(b))

\* a * b and a / b of two fixed-point scalars
MulS(a, b) == TruncDiv(a * b, Scale)

DivS(a, b) == TruncDiv(a * Scale, b)

\* binary search; mid is bound as a value, so it is computed once a level
RECURSIVE SqrtSearch(_, _, _)
SqrtSearch(n, lo, hi) ==
    IF lo >= hi THEN lo
    ELSE CHOOSE r \in { IF mid * mid <= n THEN SqrtSearch(n, mid, hi)
                                          ELSE SqrtSearch(n, lo, mid - 1) :
                        mid \in {(lo + hi + 1) \div 2} } : TRUE

\* floor of the square root of a natural number below 2^31
ISqrt(n) == SqrtSearch(n, 0, IF n < 46340 THEN n ELSE 46340)

(***************************************************************************)
(* PointCal of the point2point package, as used by rigidbody.ts            *)
(***************************************************************************)
Zero == [x |-> 0, y |-> 0]

addVector(a, b) == [x |-> a.x + b.x, y |-> a.y + b.y]

subVector(a, b) == [x |-> a.x - b.x, y |-> a.y - b.y]

multiplyVectorByScalar(a, s) == [x |-> MulS(a.x, s), y |-> MulS(a.y, s)]

\* point2point returns the vector unchanged when the divisor is 0
divideVectorByScalar(a, s) ==
    IF s = 0 THEN a ELSE [x |-> DivS(a.x, s), y |-> DivS(a.y, s)]

dotProduct(a, b) == MulS(a.x, b.x) + MulS(a.y, b.y)

\* x^2 + y^2 in units of 1/Scale^2; magnitude is its square root
magnitudeSq(a) == a.x * a.x + a.y * a.y

magnitude(a) == ISqrt(magnitudeSq(a))

\* magnitude(a) < magnitude(b): the square root is monotone, so the
\* comparison of the two doubles is the comparison of the squares
magnitudeLess(a, b) == magnitudeSq(a) < magnitudeSq(b)

magnitudeBelow_inclusive(a, t) == t > 0 /\ magnitudeSq(a) <= t * t

\* magnitude(a) < t for a scalar t
magnitudeBelow(a, t) == t > 0 /\ magnitudeSq(a) < t * t

\* the zero vector has the zero vector as its unit vector
unitVector(a) ==
    IF magnitude(a) # 0
    THEN [x |-> DivS(a.x, magnitude(a)), y |-> DivS(a.y, magnitude(a))]
    ELSE Zero

(***************************************************************************)
(* BaseRigidBody                                                           *)
(***************************************************************************)
\* the two revisions of rigidbody.ts in the repository
Variants == {"rigidbody", "part_000"}

Gravity == 9810

DefaultFrictionCoeff == 300

\* angularDampingFactor: 0.005 in rigidbody.ts, 0.001 in part_000
angularDampingFactor(variant) == IF variant = "rigidbody" THEN 5 ELSE 1

\* constructor of BaseRigidBody, through Circle
Circle(variant, center, radius, orientationAngle, mass, isStatic, frictionEnabled) ==
    [ variant             |-> variant,
      center              |-> center,
      orientationAngle    |-> orientationAngle,
      mass                |-> mass,
      isStaticBody        |-> isStatic,
      frictionEnabled     |-> frictionEnabled,
      force               |-> Zero,
      linearVelocity      |-> Zero,
      angularVelocity     |-> 0,
      isMovingStaticBody  |-> FALSE,
      staticFrictionCoeff |-> DefaultFrictionCoeff,
      dynamicFrictionCoeff |-> DefaultFrictionCoeff,
      radius              |-> radius ]

isStatic(b) == b.isStaticBody

isMovingStatic(b) == b.isMovingStaticBody

move_unguarded(b, delta) == [b EXCEPT !.center = addVector(b.center, delta)]

move(b, delta) ==
    IF ~isStatic(b) THEN [b EXCEPT !.center = addVector(b.center, delta)] ELSE b

setLinearVelocity(b, v) == [b EXCEPT !.linearVelocity = v]

setAngularVelocity(b, w) == [b EXCEPT !.angularVelocity = w]

setMovingStatic(b, flag) == [b EXCEPT !.isMovingStaticBody = flag]

applyForce_assign(b, f) == [b EXCEPT !.force = f]

applyForce(b, f) ==
    IF magnitude(b.force) # 0
    THEN [b EXCEPT !.force = addVector(b.force, f)]
    ELSE [b EXCEPT !.force = f]

\* staticFrictionCoeff * mass * 9.81
staticFrictionThreshold(b) == MulS(MulS(b.staticFrictionCoeff, b.mass), Gravity)

\* the condition under which step discards the pending force
forceDiscarded(b) ==
    \/ isStatic(b)
    \/ /\ b.linearVelocity.x = 0
       /\ b.linearVelocity.y = 0
       /\ magnitudeSq(subVector(b.force, Zero)) >= 0
       /\ magnitudeBelow(b.force, staticFrictionThreshold(b))

\* kineticFrictionDirection is bound as a value, as the local of the code is
kineticFriction(b) ==
    CHOOSE r \in { multiplyVectorByScalar(kineticFrictionDirection,
                       MulS(MulS(b.dynamicFrictionCoeff, b.mass), Gravity)) :
                   kineticFrictionDirection \in
                       {multiplyVectorByScalar(unitVector(b.linearVelocity), -Scale)} } : TRUE

\* the force after the friction block at the head of step
frictionForce(b) ==
    IF b.frictionEnabled
    THEN IF forceDiscarded(b) THEN Zero ELSE addVector(b.force, kineticFriction(b))
    ELSE b.force

\* rigidbody.ts picks the sign by comparison; part_000 computes
\* angularVelocity * (-1 / angularVelocity) * factor, which is -factor for
\* every nonzero angularVelocity
angularDamping(b) ==
    IF b.angularVelocity = 0 THEN 0
    ELSE IF b.variant = "rigidbody"
         THEN IF b.angularVelocity > 0 THEN -angularDampingFactor(b.variant)
                                       ELSE angularDampingFactor(b.variant)
         ELSE -angularDampingFactor(b.variant)

dampedAngularVelocity(b) ==
    IF Abs(b.angularVelocity) < Abs(angularDamping(b))
    THEN 0
    ELSE b.angularVelocity + angularDamping(b)

\* force * deltaTime / mass
velocityDelta(force, deltaTime, mass) ==
    divideVectorByScalar(multiplyVectorByScalar(force, deltaTime), mass)

integratedVelocity(v, force, deltaTime, mass) ==
    addVector(IF magnitudeLess(v, velocityDelta(force, deltaTime, mass)) THEN Zero ELSE v,
              velocityDelta(force, deltaTime, mass))

forceAfterStep_kept(b) == frictionForce(b)

\* the pending force step leaves behind
forceAfterStep(b) == Zero

step_positionFirst(b, deltaTime) ==
    LET f == frictionForce(b)
        w == dampedAngularVelocity(b)
        v == integratedVelocity(b.linearVelocity, f, deltaTime, b.mass)
    IN  [b EXCEPT !.angularVelocity  = w,
                  !.orientationAngle = b.orientationAngle + MulS(w, deltaTime),
                  !.linearVelocity   = v,
                  !.center           = addVector(b.center,
                                          multiplyVectorByScalar(b.linearVelocity, deltaTime)),
                  !.force            = forceAfterStep(b)]

\* f, w and v are the force, the angular velocity and the linear velocity
\* the code has written when it reads them again; each is bound as a value
step(b, deltaTime) ==
    CHOOSE r \in
        { [b EXCEPT !.angularVelocity  = w,
                    !.orientationAngle = b.orientationAngle + MulS(w, deltaTime),
                    !.linearVelocity   = v,
                    !.center           = addVector(b.center,
                                                   multiplyVectorByScalar(v, deltaTime)),
                    !.force            = forceAfterStep(b)] :
          w \in {dampedAngularVelocity(b)},
          v \in { integratedVelocity(b.linearVelocity, f, deltaTime, b.mass) :
                    f \in {frictionForce(b)} } } : TRUE

(***************************************************************************)
(* Inputs and bounds                                                       *)
(***************************************************************************)
\* the body objects of the model; object 1 is the body of SpecBody
Obj == {1, 2, 3}

MassSet == {1000, 2000}

DtSet == {1000, 2000}

ForceSet == { [x |-> 2942, y |-> 0], [x |-> 2943, y |-> 0], [x |-> -2943, y |-> 0] }

VelSet == { [x |-> 1000, y |-> 0], [x |-> -3000, y |-> 4000] }

AngVelSet == {-7, 3}

DeltaSet == { [x |-> 500, y |-> -500] }

\* method calls made in one behaviour
MaxCalls == 4

Op(name, o, dt) == [op |-> name, obj |-> o, dt |-> dt]

\* the value of returned after a call that returns nothing
NoReturn == [arg |-> Zero, value |-> <<>>]

(***************************************************************************)
(* AABB of a body (Circle.AABB) and overlap of two boxes                   *)
(***************************************************************************)
AABB(b) ==
    [ min |-> subVector(b.center, [x |-> b.radius, y |-> b.radius]),
      max |-> addVector(b.center, [x |-> b.radius, y |-> b.radius]) ]

aabbOverlap(p, q) ==
    /\ p.min.x <= q.max.x /\ q.min.x <= p.max.x
    /\ p.min.y <= q.max.y /\ q.min.y <= p.max.y

(***************************************************************************)
(* QuadTree (quadtree.ts)                                                  *)
(***************************************************************************)
\* contained bodies a leaf holds before it splits
Capacity == 1

\* depth below which a leaf may split
MaxDepth == 2

RectangleBound(origin, width, height) ==
    [origin |-> origin, width |-> width, height |-> height]

boundBox(bound) ==
    [ min |-> bound.origin,
      max |-> addVector(bound.origin, [x |-> bound.width, y |-> bound.height]) ]

QuadTree(depth, bound) ==
    [depth |-> depth, bound |-> bound, contained |-> <<>>, children |-> <<>>]

\* the four equal quadrants of a bound
quadrant(bound, i) ==
    LET w == bound.width \div 2
        h == bound.height \div 2
        dx == IF i \in {2, 4} THEN w ELSE 0
        dy == IF i \in {3, 4} THEN h ELSE 0
    IN  RectangleBound(addVector(bound.origin, [x |-> dx, y |-> dy]), w, h)

RECURSIVE insert(_, _, _)
RECURSIVE insertAll(_, _, _)

\* insert body o, whose record is h[o], below node
insert(node, o, h) ==
    IF ~aabbOverlap(boundBox(node.bound), AABB(h[o])) THEN node
    ELSE IF node.children # <<>>
    THEN [node EXCEPT !.children = [i \in 1 .. 4 |-> insert(node.children[i], o, h)]]
    ELSE IF Len(node.contained) + 1 > Capacity /\ node.depth < MaxDepth
    THEN [node EXCEPT
            !.contained = <<>>,
            !.children = [i \in 1 .. 4 |->
                insertAll(QuadTree(node.depth + 1, quadrant(node.bound, i)),
                          Append(node.contained, o), h)]]
    ELSE [node EXCEPT !.contained = Append(node.contained, o)]

insertAll(node, os, h) ==
    IF os = <<>> THEN node ELSE insertAll(insert(node, Head(os), h), Tail(os), h)

clear(node) == QuadTree(node.depth, node.bound)

\* s followed by the elements of t that s does not hold
RECURSIVE appendNew(_, _)
appendNew(s, t) ==
    IF t = <<>> THEN s
    ELSE appendNew(IF \E i \in 1 .. Len(s) : s[i] = Head(t) THEN s ELSE Append(s, Head(t)),
                   Tail(t))

\* the bodies of the leaves that overlap box
RECURSIVE query(_, _)
query(node, box) ==
    IF ~aabbOverlap(boundBox(node.bound), box) THEN <<>>
    ELSE IF node.children = <<>> THEN appendNew(<<>>, node.contained)
    ELSE appendNew(appendNew(appendNew(query(node.children[1], box),
                                       query(node.children[2], box)),
                             query(node.children[3], box)),
                   query(node.children[4], box))

\* every body the tree holds, once per leaf that holds it
RECURSIVE treeContents(_)
treeContents(node) ==
    IF node.children = <<>> THEN node.contained
    ELSE treeContents(node.children[1]) \o treeContents(node.children[2])
         \o treeContents(node.children[3]) \o treeContents(node.children[4])

Range(s) == {s[i] : i \in 1 .. Len(s)}

(***************************************************************************)
(* Circle: the shape queries the collision engine calls                    *)
(***************************************************************************)
getMinMaxProjection(b, unitvector) ==
    [ min |-> dotProduct(addVector(b.center, multiplyVectorByScalar(unitvector, -b.radius)),
                         unitvector),
      max |-> dotProduct(addVector(b.center, multiplyVectorByScalar(unitvector, b.radius)),
                         unitvector) ]

getCollisionAxes(b, relativeBody) ==
    <<unitVector(subVector(relativeBody.center, b.center))>>

(***************************************************************************)
(* Polygon                                                                 *)
(***************************************************************************)
\* the orientation angles of the polygons of the model: 0, pi/4, pi/2, pi
AngleSet == {0, 785, 1571, 3142}

\* Math.cos and Math.sin of these angles, to three digits
cos(angle) ==
    CASE angle = 0 -> Scale [] angle = 785 -> 707 [] angle = 1571 -> 0
      [] angle = 3142 -> -Scale

sin(angle) ==
    CASE angle = 0 -> 0 [] angle = 785 -> 707 [] angle = 1571 -> Scale
      [] angle = 3142 -> 0

rotatePoint(p, angle) ==
    [ x |-> MulS(p.x, cos(angle)) - MulS(p.y, sin(angle)),
      y |-> MulS(p.x, sin(angle)) + MulS(p.y, cos(angle)) ]

\* constructor of BaseRigidBody, through Polygon
Polygon(variant, center, vertices, orientationAngle, mass, isStaticBody, frictionEnabled) ==
    [ variant             |-> variant,
      center              |-> center,
      orientationAngle    |-> orientationAngle,
      mass                |-> mass,
      isStaticBody        |-> isStaticBody,
      frictionEnabled     |-> frictionEnabled,
      force               |-> Zero,
      linearVelocity      |-> Zero,
      angularVelocity     |-> 0,
      isMovingStaticBody  |-> FALSE,
      staticFrictionCoeff |-> DefaultFrictionCoeff,
      dynamicFrictionCoeff |-> DefaultFrictionCoeff,
      vertices            |-> vertices ]

\* b instanceof Polygon
isPolygon(b) == "vertices" \in DOMAIN b

setOrientationAngle(b, angle) == [b EXCEPT !.orientationAngle = angle]

getVerticesAbsCoord_local(b) ==
    [i \in 1 .. Len(b.vertices) |-> rotatePoint(b.vertices[i], b.orientationAngle)]

getVerticesAbsCoord(b) ==
    [i \in 1 .. Len(b.vertices) |->
        addVector(b.center, rotatePoint(b.vertices[i], b.orientationAngle))]

\* Math.min(...s) and Math.max(...s) of a nonempty array
RECURSIVE minOf(_)
minOf(s) == IF Len(s) = 1 THEN s[1] ELSE Min(s[1], minOf(Tail(s)))

RECURSIVE maxOf(_)
maxOf(s) == IF Len(s) = 1 THEN s[1] ELSE Max(s[1], maxOf(Tail(s)))

\* Array.indexOf, counting from 0, of a value the array holds
indexOf(s, v) == (CHOOSE i \in 1 .. Len(s) : s[i] = v /\ \A j \in 1 .. i - 1 : s[j] # v) - 1

\* array[index], the index counting from 0
at(s, index) == s[index + 1]

polygonAABB(b) ==
    LET points == getVerticesAbsCoord(b)
        xCoords == [i \in 1 .. Len(points) |-> points[i].x]
        yCoords == [i \in 1 .. Len(points) |-> points[i].y]
    IN  [ min |-> [x |-> minOf(xCoords), y |-> minOf(yCoords)],
          max |-> [x |-> maxOf(xCoords), y |-> maxOf(yCoords)] ]

\* the projections of the absolute vertices on collisionNormal
verticesProjected(b, collisionNormal) ==
    [i \in 1 .. Len(b.vertices) |-> dotProduct(getVerticesAbsCoord(b)[i], collisionNormal)]

maxIndex(b, collisionNormal) ==
    indexOf(verticesProjected(b, collisionNormal), maxOf(verticesProjected(b, collisionNormal)))

prevPointIndex(index, length) == IF index > 0 THEN index - 1 ELSE length - 1

nextPointIndex(index, length) == IF index < length - 1 THEN index + 1 ELSE 0

significantVertex(b, collisionNormal) ==
    at(getVerticesAbsCoord(b), maxIndex(b, collisionNormal))

prevFaceChosen_onTie(prevPointProjected, nextPointProjected) ==
    prevPointProjected >= nextPointProjected

\* the face before the tip vertex is the significant face
prevFaceChosen(prevPointProjected, nextPointProjected) ==
    prevPointProjected > nextPointProjected

getSignificantVertices(b, collisionNormal) ==
    LET vertices == getVerticesAbsCoord(b)
        tip == maxIndex(b, collisionNormal)
        prevIndex == prevPointIndex(tip, Len(vertices))
        nextIndex == nextPointIndex(tip, Len(vertices))
    IN  IF prevFaceChosen(dotProduct(at(vertices, prevIndex), collisionNormal),
                          dotProduct(at(vertices, nextIndex), collisionNormal))
        THEN <<at(vertices, prevIndex), at(vertices, tip)>>
        ELSE <<at(vertices, tip), at(vertices, nextIndex)>>

\* the face from vertex i to vertex j, as getAdjacentFaces returns it
face(vertices, i, j) ==
    [ startPoint |-> [coord |-> at(vertices, i), index |-> i],
      endPoint   |-> [coord |-> at(vertices, j), index |-> j] ]

unshift_push(s, e) == Append(s, e)

\* Array.unshift
unshift(s, e) == <<e>> \o s

getAdjacentFaces(b, collisionNormal) ==
    LET vertices == getVerticesAbsCoord(b)
        n == Len(vertices)
        tip == maxIndex(b, collisionNormal)
        prevIndex == prevPointIndex(tip, n)
        nextIndex == nextPointIndex(tip, n)
    IN  IF prevFaceChosen(dotProduct(at(vertices, prevIndex), collisionNormal),
                          dotProduct(at(vertices, nextIndex), collisionNormal))
        THEN unshift(unshift(<<face(vertices, prevIndex, tip)>>,
                             face(vertices, tip, nextIndex)),
                     face(vertices, prevPointIndex(prevIndex, n), prevIndex))
        ELSE unshift(unshift(<<face(vertices, tip, nextIndex)>>,
                             face(vertices, nextIndex, nextPointIndex(nextIndex, n))),
                     face(vertices, prevIndex, tip))

\* Circle.getAdjacentFaces
circleAdjacentFaces(b, collisionNormal) == <<>>

\* the calls on a RigidBody, dispatched on its class
bodyAABB(b) == IF isPolygon(b) THEN polygonAABB(b) ELSE AABB(b)

bodyAdjacentFaces(b, collisionNormal) ==
    IF isPolygon(b) THEN getAdjacentFaces(b, collisionNormal)
                    ELSE circleAdjacentFaces(b, collisionNormal)

(***************************************************************************)
(* Collision engine (collision.ts)                                         *)
(***************************************************************************)
\* the unordered pair of two bodies, the lower identity first
pairOf(a, c) == IF a < c THEN [bodyA |-> a, bodyB |-> c] ELSE [bodyA |-> c, bodyB |-> a]

\* the pairs body o adds to acc, given the candidates the tree returned
RECURSIVE pairsOfBody(_, _, _, _)
pairsOfBody(acc, o, candidates, h) ==
    IF candidates = <<>> THEN acc
    ELSE LET c == Head(candidates)
             emit == c # o /\ aabbOverlap(AABB(h[o]), AABB(h[c]))
         IN  pairsOfBody(IF emit THEN appendNew(acc, <<pairOf(o, c)>>) ELSE acc,
                         o, Tail(candidates), h)

RECURSIVE broadPhaseFrom(_, _, _, _)
broadPhaseFrom(acc, tree, bodies, h) ==
    IF bodies = <<>> THEN acc
    ELSE broadPhaseFrom(pairsOfBody(acc, Head(bodies), query(tree, AABB(h[Head(bodies)])), h),
                        tree, Tail(bodies), h)

broadPhaseWithRigidBodyReturned(tree, bodies, h) == broadPhaseFrom(<<>>, tree, bodies, h)

\* overlap of the projections of A and B on axis; negative when separated
overlapOn(A, B, axis) ==
    Min(getMinMaxProjection(A, axis).max, getMinMaxProjection(B, axis).max)
      - Max(getMinMaxProjection(A, axis).min, getMinMaxProjection(B, axis).min)

\* 1/mass; a static or moving-static body has infinite mass
inverseMass(b) ==
    IF isStatic(b) \/ isMovingStatic(b) \/ b.mass = 0 THEN 0 ELSE DivS(Scale, b.mass)

\* the separating-axis test of A and B: the axis of least overlap, oriented
\* from A to B, and the penetration depth
satResult(A, B) ==
    LET axes == getCollisionAxes(A, B) \o getCollisionAxes(B, A)
        separated == \E i \in 1 .. Len(axes) : overlapOn(A, B, axes[i]) < 0
        best == CHOOSE i \in 1 .. Len(axes) :
                    \A j \in 1 .. Len(axes) :
                        \/ overlapOn(A, B, axes[i]) < overlapOn(A, B, axes[j])
                        \/ overlapOn(A, B, axes[i]) = overlapOn(A, B, axes[j]) /\ i <= j
        axis == axes[best]
        toB == subVector(B.center, A.center)
    IN  [ collides |-> ~separated,
          normal   |-> IF dotProduct(axis, toB) < 0
                       THEN multiplyVectorByScalar(axis, -Scale) ELSE axis,
          depth    |-> overlapOn(A, B, axis) ]

\* A and B after the positional correction and the impulses of one contact
resolved(A, B, normal, depth) ==
    LET invA == inverseMass(A)
        invB == inverseMass(B)
        invSum == invA + invB
        shareA == DivS(invA, invSum)
        shareB == DivS(invB, invSum)
        vrel == subVector(B.linearVelocity, A.linearVelocity)
        vn == dotProduct(vrel, normal)
        j == IF vn < 0 THEN DivS(-vn, invSum) ELSE 0
        tangent == unitVector(subVector(vrel, multiplyVectorByScalar(normal, vn)))
        vt == dotProduct(vrel, tangent)
        jtMax == MulS(Min(A.staticFrictionCoeff, A.dynamicFrictionCoeff), j)
        jtRaw == DivS(-vt, invSum)
        jt == IF ~(A.frictionEnabled \/ B.frictionEnabled) THEN 0
              ELSE IF jtRaw > jtMax THEN jtMax
              ELSE IF jtRaw < -jtMax THEN -jtMax ELSE jtRaw
        impulse == addVector(multiplyVectorByScalar(normal, j),
                             multiplyVectorByScalar(tangent, jt))
    IN  IF invSum = 0 THEN <<A, B>>
        ELSE << [A EXCEPT
                   !.center = subVector(A.center,
                                 multiplyVectorByScalar(normal, MulS(depth, shareA))),
                   !.linearVelocity = subVector(A.linearVelocity,
                                 multiplyVectorByScalar(impulse, invA))],
                [B EXCEPT
                   !.center = addVector(B.center,
                                 multiplyVectorByScalar(normal, MulS(depth, shareB))),
                   !.linearVelocity = addVector(B.linearVelocity,
                                 multiplyVectorByScalar(impulse, invB))] >>

\* the narrow phase of one pair on the bodies h
narrowPair(h, pair, resolve) ==
    LET A == h[pair.bodyA]
        B == h[pair.bodyB]
        skipped == \/ isStatic(A) /\ isStatic(B)
                   \/ isMovingStatic(A) /\ isMovingStatic(B)
        sat == satResult(A, B)
        AB == resolved(A, B, sat.normal, sat.depth)
    IN  IF skipped \/ ~sat.collides \/ ~resolve THEN h
        ELSE [h EXCEPT ![pair.bodyA] = AB[1], ![pair.bodyB] = AB[2]]

\* the bodies after the narrow phase has handled the pairs in order
RECURSIVE narrowPhaseWithRigidBody(_, _, _)
narrowPhaseWithRigidBody(h, pairs, resolve) ==
    IF pairs = <<>> THEN h
    ELSE narrowPhaseWithRigidBody(narrowPair(h, Head(pairs), resolve), Tail(pairs), resolve)

(***************************************************************************)
(* World                                                                   *)
(***************************************************************************)
Idents == {"a", "b", "c"}

\* the extent handed to the World constructor; it covers every position a
\* body of the model reaches, so the root of the tree rejects no body
MaxTrans == 64000

WorldBound ==
    RectangleBound([x |-> -MaxTrans, y |-> -MaxTrans], 2 * MaxTrans, 2 * MaxTrans)

\* Map.has, Map.set, Map.delete and Map.forEach of the identifier map
mapHas(m, ident) == \E i \in 1 .. Len(m) : m[i].ident = ident

mapSet_append(m, ident, o) == Append(m, [ident |-> ident, body |-> o])

mapSet(m, ident, o) ==
    IF mapHas(m, ident)
    THEN [i \in 1 .. Len(m) |-> IF m[i].ident = ident THEN [ident |-> ident, body |-> o]
                                                      ELSE m[i]]
    ELSE Append(m, [ident |-> ident, body |-> o])

mapDelete(m, ident) == SelectSeq(m, LAMBDA e : e.ident # ident)

mapValues(m) == [i \in 1 .. Len(m) |-> m[i].body]

collectedList_unshift(m) == [i \in 1 .. Len(m) |-> m[Len(m) + 1 - i].body]

\* World.step, the local body list
collectedList(m) == mapValues(m)

rebuiltTree_noClear(tree, m, h) == insertAll(tree, mapValues(m), h)

rebuiltTree_noInsert(tree, m, h) == clear(tree)

\* World.step, the tree after the clear and the insertions
rebuiltTree(tree, m, h) == insertAll(clear(tree), mapValues(m), h)

integratedList_field(local, field) == field

\* World.step, the bodies that are integrated
integratedList(local, field) == local

RECURSIVE stepAll(_, _, _)
stepAll(h, bodies, deltaTime) ==
    IF bodies = <<>> THEN h
    ELSE stepAll([h EXCEPT ![Head(bodies)] = step(h[Head(bodies)], deltaTime)],
                 Tail(bodies), deltaTime)

getRigidBodyList(m) == mapValues(m)

Event(ev, o, pairs) == [ev |-> ev, obj |-> o, pairs |-> pairs]

(***************************************************************************)
(* One body: construction, then any calls of its methods                   *)
(***************************************************************************)
Update(o, b, name, dt, keepsPure) ==
    /\ phase = "idle"
    /\ nCalls < MaxCalls
    /\ nCalls' = nCalls + 1
    /\ UNCHANGED worldVars
    /\ heap' = [heap EXCEPT ![o] = b]
    /\ prev' = heap
    /\ lastOp' = Op(name, o, dt)
    /\ pure' = (pure /\ keepsPure)
    /\ UNCHANGED returned

ApplyForceAct(o) ==
    \E f \in ForceSet :
        /\ Update(o, applyForce(heap[o], f), "applyForce", 0, TRUE)
        /\ pending' = Append(pending, f)

StepAct(o) ==
    /\ \E dt \in DtSet : Update(o, step(heap[o], dt), "step", dt, TRUE)
    /\ pending' = <<>>

SetLinearVelocityAct(o) ==
    /\ \E v \in VelSet : Update(o, setLinearVelocity(heap[o], v), "setLinearVelocity", 0, FALSE)
    /\ UNCHANGED pending

SetAngularVelocityAct(o) ==
    /\ \E w \in AngVelSet : Update(o, setAngularVelocity(heap[o], w), "setAngularVelocity", 0, FALSE)
    /\ UNCHANGED pending

SetMovingStaticAct(o) ==
    /\ \E flag \in BOOLEAN : Update(o, setMovingStatic(heap[o], flag), "setMovingStatic", 0, FALSE)
    /\ UNCHANGED pending

MoveAct(o) ==
    /\ \E d \in DeltaSet : Update(o, move(heap[o], d), "move", 0, FALSE)
    /\ UNCHANGED pending

\* the World constructor
InitWorld ==
    /\ rigidBodyList = <<>>
    /\ rigidBodyMap = <<>>
    /\ quadTree = QuadTree(0, WorldBound)
    /\ phase = "idle"
    /\ tickList = <<>>
    /\ tickDt = 0
    /\ possibleCombinations = <<>>
    /\ log = <<>>
    /\ latest = [ident \in Idents |-> 0]
    /\ firstAdded = {}

\* the pose the body of SpecBody is constructed with
InitCenter == Zero

InitAngle == 0

InitBody ==
    /\ InitWorld
    /\ \E variant \in Variants, mass \in MassSet, static \in BOOLEAN, friction \in BOOLEAN :
          heap = [o \in Obj |->
                    Circle(variant, InitCenter, 1000, InitAngle, mass, static, friction)]
    /\ prev = heap
    /\ lastOp = Op("new", 1, 0)
    /\ pure = TRUE
    /\ nCalls = 0
    /\ pending = <<>>
    /\ returned = NoReturn

NextBody ==
    \/ ApplyForceAct(1)
    \/ StepAct(1)
    \/ SetLinearVelocityAct(1)
    \/ SetAngularVelocityAct(1)
    \/ SetMovingStaticAct(1)
    \/ MoveAct(1)

SpecBody == InitBody /\ [][NextBody]_vars

(***************************************************************************)
(* Properties of one body (SpecBody)                                       *)
(***************************************************************************)
\* the body of SpecBody now and before the last call
body == heap[1]

before == prev[1]

stepped == lastOp.op = "step"

\* C1: a body constructed static has the center and orientationAngle of its
\* construction after any sequence of applyForce and step calls.
C1_StaticPoseAfterForceAndStep ==
    (isStatic(body) /\ pure) =>
        (body.center = InitCenter /\ body.orientationAngle = InitAngle)

\* C2: step on a static body leaves center and orientationAngle as they
\* were, also when its linearVelocity or angularVelocity is nonzero.
C2_StaticStepKeepsPose ==
    (stepped /\ isStatic(before)) =>
        (body.center = before.center /\ body.orientationAngle = before.orientationAngle)

\* C6: after every step the pending force is the zero vector, whatever the
\* flags, the velocity and the force accumulated before.
C6_StepResetsForce == stepped => body.force = Zero

C6_Witness == stepped /\ before.force # Zero /\ body.force = Zero

\* C7: each step leaves |angularVelocity| no larger than before, keeps its
\* sign, and sets it to 0 when its magnitude is below the damping increment.
C7_AngularDampingTowardZero ==
    stepped =>
        /\ Abs(body.angularVelocity) <= Abs(before.angularVelocity)
        /\ body.angularVelocity * before.angularVelocity >= 0
        /\ Abs(before.angularVelocity) < angularDampingFactor(before.variant)
              => body.angularVelocity = 0

\* a non-static body at rest with friction enabled
atRestWithFriction(b) ==
    ~isStatic(b) /\ b.frictionEnabled /\ b.linearVelocity = Zero

\* force * dt / mass, the quotient truncated once
exactDelta(force, dt, mass) ==
    [x |-> TruncDiv(force.x * dt, mass), y |-> TruncDiv(force.y * dt, mass)]

\* C8: a non-static body with friction enabled and linearVelocity (0, 0)
\* keeps velocity (0, 0) and its center over a step when its force is below
\* staticFrictionCoeff * mass * 9.81 in magnitude, and acquires the velocity
\* force / mass * dt when the force is at or above that threshold.
C8_StaticFrictionThreshold ==
    (stepped /\ atRestWithFriction(before)) =>
        IF magnitudeSq(before.force) < staticFrictionThreshold(before) * staticFrictionThreshold(before)
        THEN body.linearVelocity = Zero /\ body.center = before.center
        ELSE body.linearVelocity = exactDelta(before.force, lastOp.dt, before.mass)

C8_Witness ==
    /\ stepped /\ atRestWithFriction(before)
    /\ before.force # Zero
    /\ magnitudeSq(before.force) < staticFrictionThreshold(before) * staticFrictionThreshold(before)
    /\ body.linearVelocity = Zero

\* C9: a moving body with friction enabled and no applied force never ends
\* a step with a velocity pointing opposite to the velocity it had before.
C9_FrictionNeverReverses ==
    (stepped /\ ~isStatic(before) /\ before.frictionEnabled
             /\ before.force = Zero /\ before.linearVelocity # Zero) =>
        body.linearVelocity.x * before.linearVelocity.x
          + body.linearVelocity.y * before.linearVelocity.y >= 0

\* C10: step leaves the linearVelocity of a static or moving-static body as
\* it was, for any pending force.
C10_StaticExcludedFromForce ==
    (stepped /\ (isStatic(before) \/ isMovingStatic(before))) =>
        body.linearVelocity = before.linearVelocity

\* C15: move(delta) leaves the center of a static body as it was and sets
\* the center of a non-static body, moving-static or not, to center + delta;
\* linearVelocity, angularVelocity, orientationAngle and the pending force
\* are as before.
C15_MoveFrame ==
    lastOp.op = "move" =>
        /\ \E delta \in DeltaSet :
              body.center = IF isStatic(before)
                            THEN before.center
                            ELSE [x |-> before.center.x + delta.x,
                                  y |-> before.center.y + delta.y]
        /\ body.linearVelocity = before.linearVelocity
        /\ body.angularVelocity = before.angularVelocity
        /\ body.orientationAngle = before.orientationAngle
        /\ body.force = before.force

\* a moving-static body with a velocity and a pending force has been moved
C15_Witness ==
    /\ lastOp.op = "move"
    /\ ~isStatic(before) /\ isMovingStatic(before)
    /\ before.linearVelocity # Zero /\ before.force # Zero
    /\ body.center # before.center

\* C16: step(dt) on a non-static body, with F the force after the friction
\* adjustment, w' the angular velocity it leaves and v' the linear velocity
\* it leaves: orientationAngle' = orientationAngle + w' * dt,
\* v' = (|v| < |F / mass * dt| ? 0 : v) + F / mass * dt and
\* center' = center + v' * dt.
C16_StepOrder ==
    (stepped /\ ~isStatic(before)) =>
        LET dt == lastOp.dt
            dv == exactDelta(frictionForce(before), dt, before.mass)
            v  == before.linearVelocity
            kept == IF v.x * v.x + v.y * v.y < dv.x * dv.x + dv.y * dv.y THEN Zero ELSE v
        IN  /\ body.orientationAngle
                 = before.orientationAngle + TruncDiv(body.angularVelocity * dt, Scale)
            /\ body.linearVelocity = [x |-> kept.x + dv.x, y |-> kept.y + dv.y]
            /\ body.center
                 = [x |-> before.center.x + TruncDiv(body.linearVelocity.x * dt, Scale),
                    y |-> before.center.y + TruncDiv(body.linearVelocity.y * dt, Scale)]

\* a step that has damped the angular velocity and changed a nonzero
\* linear velocity
C16_Witness ==
    /\ stepped /\ ~isStatic(before)
    /\ before.linearVelocity # Zero
    /\ body.linearVelocity # before.linearVelocity /\ body.linearVelocity # Zero
    /\ before.angularVelocity # 0 /\ body.angularVelocity # before.angularVelocity
    /\ body.orientationAngle # before.orientationAngle
    /\ body.center # before.center

\* how often force f is among the forces of s
timesApplied(s, f) == Cardinality({i \in 1 .. Len(s) : s[i] = f})

\* the sum of the forces of s, taken force by force of ForceSet and not in
\* the order of s
RECURSIVE sumByForce(_, _)
sumByForce(s, forces) ==
    IF forces = {} THEN Zero
    ELSE LET f == CHOOSE g \in forces : TRUE
             rest == sumByForce(s, forces \ {f})
         IN  [x |-> rest.x + timesApplied(s, f) * f.x, y |-> rest.y + timesApplied(s, f) * f.y]

C17_PendingIsSum == body.force = sumByForce(pending, ForceSet)

\* a step integrates the sum of the forces applied since the last step
C17_StepIntegratesSum ==
    (lastOp'.op = "step" /\ nCalls' = nCalls + 1) =>
        LET sum == sumByForce(pending, ForceSet)
            F == frictionForce([heap[1] EXCEPT !.force = sum])
            dv == exactDelta(F, lastOp'.dt, heap[1].mass)
            v == heap[1].linearVelocity
            kept == IF v.x * v.x + v.y * v.y < dv.x * dv.x + dv.y * dv.y THEN Zero ELSE v
        IN  heap'[1].linearVelocity = [x |-> kept.x + dv.x, y |-> kept.y + dv.y]

\* C17: between steps the pending force is the sum of the forces applied,
\* whatever the order of the calls and also when a partial sum is the zero
\* vector; the next step integrates that sum.
C17_ForcesAccumulate == [](C17_PendingIsSum) /\ [][C17_StepIntegratesSum]_vars

\* three forces applied, the first two cancelling: the partial sum has
\* passed through the zero vector, and a step can follow
C17_Witness ==
    /\ lastOp.op = "applyForce"
    /\ Len(pending) = 3
    /\ addVector(pending[1], pending[2]) = Zero
    /\ before.force = Zero
    /\ body.force = pending[3] /\ body.force # Zero
    /\ nCalls < MaxCalls

(***************************************************************************)
(* The world: bodies are added and removed, forces applied, ticks run      *)
(***************************************************************************)
\* calls made on the world and its bodies in one behaviour
MaxWorldCalls == 4

WorldForceSet == { [x |-> 2943, y |-> 0] }

WorldCall(name) ==
    /\ phase = "idle"
    /\ nCalls < MaxWorldCalls
    /\ nCalls' = nCalls + 1
    /\ lastOp' = Op(name, 0, 0)
    /\ UNCHANGED <<prev, pure, pending, returned>>

\* a body is owned by the world under one identifier at a time
ownedElsewhere(m, ident, o) ==
    \E i \in 1 .. Len(m) : m[i].body = o /\ m[i].ident # ident

addRigidBody(ident, o) ==
    /\ ~ownedElsewhere(rigidBodyMap, ident, o)
    /\ WorldCall("addRigidBody")
    /\ rigidBodyList' = Append(rigidBodyList, o)
    /\ rigidBodyMap' = mapSet(rigidBodyMap, ident, o)
    /\ latest' = [latest EXCEPT ![ident] = o]
    /\ firstAdded' = IF latest[ident] # 0 THEN firstAdded
                     ELSE firstAdded \cup {<<i, ident>> : i \in {j \in Idents : latest[j] # 0}}
    /\ UNCHANGED <<heap, quadTree, phase, tickList, tickDt, possibleCombinations, log>>

removeRigidBody(ident) ==
    /\ WorldCall("removeRigidBody")
    /\ rigidBodyMap' = IF mapHas(rigidBodyMap, ident) THEN mapDelete(rigidBodyMap, ident)
                                                      ELSE rigidBodyMap
    /\ latest' = [latest EXCEPT ![ident] = 0]
    /\ firstAdded' = {e \in firstAdded : e[1] # ident /\ e[2] # ident}
    /\ UNCHANGED <<heap, rigidBodyList, quadTree, phase, tickList, tickDt,
                   possibleCombinations, log>>

WorldApplyForce(o) ==
    /\ \E f \in WorldForceSet : heap' = [heap EXCEPT ![o] = applyForce(heap[o], f)]
    /\ WorldCall("applyForce")
    /\ UNCHANGED worldVars

\* World.step up to the end of the forEach over the map
WorldStepCollect(dt) ==
    /\ WorldCall("World.step")
    /\ tickDt' = dt
    /\ tickList' = collectedList(rigidBodyMap)
    /\ quadTree' = rebuiltTree(quadTree, rigidBodyMap, heap)
    /\ log' = <<Event("clear", 0, <<>>)>>
              \o [i \in 1 .. Len(rigidBodyMap) |-> Event("insert", rigidBodyMap[i].body, <<>>)]
    /\ phase' = "broad"
    /\ UNCHANGED <<heap, rigidBodyList, rigidBodyMap, possibleCombinations, latest, firstAdded>>

WorldStepBroad ==
    /\ phase = "broad"
    /\ possibleCombinations' = broadPhaseWithRigidBodyReturned(quadTree, tickList, heap)
    /\ log' = Append(log, Event("broad", 0, possibleCombinations'))
    /\ phase' = "narrow"
    /\ UNCHANGED <<heap, rigidBodyList, rigidBodyMap, quadTree, tickList, tickDt,
                   lastOp, prev, pure, nCalls, pending, latest, firstAdded, returned>>

WorldStepNarrow ==
    /\ phase = "narrow"
    /\ heap' = narrowPhaseWithRigidBody(heap, possibleCombinations, TRUE)
    /\ log' = Append(log, Event("narrow", 0, possibleCombinations))
    /\ phase' = "integrate"
    /\ UNCHANGED <<rigidBodyList, rigidBodyMap, quadTree, tickList, tickDt,
                   possibleCombinations, lastOp, prev, pure, nCalls, pending, latest, firstAdded, returned>>

WorldStepIntegrate ==
    /\ phase = "integrate"
    /\ heap' = stepAll(heap, integratedList(tickList, rigidBodyList), tickDt)
    /\ log' = log \o [i \in 1 .. Len(integratedList(tickList, rigidBodyList)) |->
                        Event("step", integratedList(tickList, rigidBodyList)[i], <<>>)]
    /\ phase' = "idle"
    /\ UNCHANGED <<rigidBodyList, rigidBodyMap, quadTree, tickList, tickDt,
                   possibleCombinations, lastOp, prev, pure, nCalls, pending, latest, firstAdded, returned>>

\* three circles of radius 1 in a row, neighbours overlapping, friction
\* enabled as Circle's constructor defaults it
InitWorldBodies ==
    \E statics \in {{}, {2}} :
        heap = [o \in Obj |->
                  Circle("rigidbody", [x |-> (o - 2) * 1500, y |-> 0], 1000, 0,
                         IF o = 2 THEN 2000 ELSE 1000, o \in statics, TRUE)]

InitW ==
    /\ InitWorld
    /\ InitWorldBodies
    /\ prev = heap
    /\ lastOp = Op("new", 0, 0)
    /\ pure = TRUE
    /\ nCalls = 0
    /\ pending = <<>>
    /\ returned = NoReturn

NextW ==
    \/ \E ident \in Idents, o \in Obj : addRigidBody(ident, o)
    \/ \E ident \in Idents : removeRigidBody(ident)
    \/ \E o \in Obj : WorldApplyForce(o)
    \/ \E dt \in DtSet : WorldStepCollect(dt)
    \/ WorldStepBroad
    \/ WorldStepNarrow
    \/ WorldStepIntegrate

SpecWorld == InitW /\ [][NextW]_vars

(***************************************************************************)
(* Properties of World.step (SpecWorld)                                    *)
(***************************************************************************)
\* the position of an event in the order of the phases
rank(ev) ==
    CASE ev = "clear" -> 0 [] ev = "insert" -> 1 [] ev = "broad" -> 2
      [] ev = "narrow" -> 3 [] ev = "step" -> 4

\* how often the tick has done ev on body o
count(ev, o) == Cardinality({i \in 1 .. Len(log) : log[i].ev = ev /\ log[i].obj = o})

mapped == Range(mapValues(rigidBodyMap))

\* a tick is running, or has returned and nothing was called since: the
\* identifier map is the map the tick started with
tickCurrent == lastOp.op = "World.step"

tickDone == phase = "idle" /\ tickCurrent

added == {ident \in Idents : latest[ident] # 0}

latestBodies == {latest[ident] : ident \in added}

C12_State ==
    /\ \A ident \in Idents :
          IF ident \in added
          THEN \E i \in 1 .. Len(rigidBodyMap) :
                  rigidBodyMap[i].ident = ident /\ rigidBodyMap[i].body = latest[ident]
          ELSE ~mapHas(rigidBodyMap, ident)
    /\ \A i, j \in 1 .. Len(rigidBodyMap) :
          i # j => rigidBodyMap[i].ident # rigidBodyMap[j].ident
    /\ Range(getRigidBodyList(rigidBodyMap)) = latestBodies
    /\ Len(getRigidBodyList(rigidBodyMap)) = Cardinality(added)
    /\ (phase = "broad" /\ tickCurrent) =>
          Range(tickList) = latestBodies /\ Len(tickList) = Cardinality(added)
    /\ tickDone => \A o \in Obj : count("step", o) = IF o \in latestBodies THEN 1 ELSE 0

\* a removeRigidBody of an identifier that was not mapped
C12_RemoveUnmapped ==
    (lastOp'.op = "removeRigidBody" /\ nCalls' = nCalls + 1 /\ latest' = latest) =>
        UNCHANGED <<heap, rigidBodyList, rigidBodyMap, quadTree, tickList,
                    possibleCombinations>>

\* C12: the bodies getRigidBodyList returns and World.step steps are, for
\* each identifier whose most recent call was an add, the body of that add,
\* one body per identifier; an identifier whose most recent call was a
\* remove contributes none, and removing an unmapped identifier changes
\* nothing.
C12_LastWriteWins == [](C12_State) /\ [][C12_RemoveUnmapped]_vars

\* a tick after an identifier was added twice, with two bodies
C12_Witness ==
    /\ tickDone
    /\ nCalls = 3
    /\ Len(rigidBodyList) = 2 /\ rigidBodyList[1] # rigidBodyList[2]
    /\ Len(rigidBodyMap) = 1
    /\ count("step", rigidBodyList[2]) = 1 /\ count("step", rigidBodyList[1]) = 0

\* C13: every body a field of the World refers to is the current body of
\* some identifier of the map.
C13_NoDroppedBodyReferenced == Range(rigidBodyList) \subseteq mapped

(***************************************************************************)
(* One shape: a Circle or a Polygon is constructed, then moved, turned,    *)
(* stepped and queried                                                     *)
(***************************************************************************)
\* the radii handed to Circle's constructor
RadiusSet == {-1000, 0, 1000}

\* the vertex arrays handed to Polygon's constructor: a segment, a
\* triangle, a box, a diamond and an irregular convex pentagon
VerticesSet ==
    { << [x |-> -1000, y |-> 0], [x |-> 1000, y |-> 0] >>,
      << [x |-> 0, y |-> 1000], [x |-> -1000, y |-> -1000], [x |-> 1000, y |-> -1000] >>,
      << [x |-> -2000, y |-> -1000], [x |-> 2000, y |-> -1000],
         [x |-> 2000, y |-> 1000], [x |-> -2000, y |-> 1000] >>,
      << [x |-> 1000, y |-> 0], [x |-> 0, y |-> 1000],
         [x |-> -1000, y |-> 0], [x |-> 0, y |-> -1000] >>,
      << [x |-> 2000, y |-> 0], [x |-> 1000, y |-> 2000], [x |-> -1000, y |-> 1000],
         [x |-> -2000, y |-> -1000], [x |-> 0, y |-> -2000] >> }

\* the collision normals handed to the queries
NormalSet ==
    { [x |-> 1000, y |-> 0], [x |-> 0, y |-> 1000], [x |-> 0, y |-> -1000],
      [x |-> -600, y |-> 800], [x |-> 707, y |-> 707] }

ShapeVelSet == { [x |-> 1000, y |-> -2000] }

\* method calls made on the shape in one behaviour
MaxShapeCalls == 3

ShapeCall(b, name, dt, ret) ==
    /\ phase = "idle"
    /\ nCalls < MaxShapeCalls
    /\ nCalls' = nCalls + 1
    /\ heap' = [heap EXCEPT ![1] = b]
    /\ prev' = heap
    /\ lastOp' = Op(name, 1, dt)
    /\ returned' = ret
    /\ UNCHANGED <<worldVars, pure, pending>>

ShapeMove ==
    \E d \in DeltaSet : ShapeCall(move(heap[1], d), "move", 0, NoReturn)

ShapeSetLinearVelocity ==
    \E v \in ShapeVelSet :
        ShapeCall(setLinearVelocity(heap[1], v), "setLinearVelocity", 0, NoReturn)

ShapeSetOrientationAngle ==
    \E angle \in AngleSet :
        ShapeCall(setOrientationAngle(heap[1], angle), "setOrientationAngle", 0, NoReturn)

ShapeStep ==
    \E dt \in DtSet : ShapeCall(step(heap[1], dt), "step", dt, NoReturn)

ShapeAABB ==
    ShapeCall(heap[1], "AABB", 0, [arg |-> Zero, value |-> bodyAABB(heap[1])])

ShapeGetSignificantVertices ==
    /\ isPolygon(heap[1])
    /\ \E normal \in NormalSet :
          ShapeCall(heap[1], "getSignificantVertices", 0,
                    [arg |-> normal, value |-> getSignificantVertices(heap[1], normal)])

ShapeGetAdjacentFaces ==
    \E normal \in NormalSet :
        ShapeCall(heap[1], "getAdjacentFaces", 0,
                  [arg |-> normal, value |-> bodyAdjacentFaces(heap[1], normal)])

\* new Circle(...) or new Polygon(...), friction disabled
InitShape ==
    /\ InitWorld
    /\ \E static \in BOOLEAN :
          \/ \E radius \in RadiusSet :
                heap = [o \in Obj |->
                          Circle("rigidbody", InitCenter, radius, 0, 1000, static, FALSE)]
          \/ \E vertices \in VerticesSet, angle \in AngleSet :
                heap = [o \in Obj |->
                          Polygon("rigidbody", InitCenter, vertices, angle, 1000, static, FALSE)]
    /\ prev = heap
    /\ lastOp = Op("new", 1, 0)
    /\ pure = TRUE
    /\ nCalls = 0
    /\ pending = <<>>
    /\ returned = NoReturn

NextShape ==
    \/ ShapeMove
    \/ ShapeSetLinearVelocity
    \/ ShapeSetOrientationAngle
    \/ ShapeStep
    \/ ShapeAABB
    \/ ShapeGetSignificantVertices
    \/ ShapeGetAdjacentFaces

SpecShape == InitShape /\ [][NextShape]_vars

(***************************************************************************)
(* Properties of one shape (SpecShape)                                     *)
(***************************************************************************)
\* a shape the data model admits: a polygon of at least 3 vertices, a
\* circle of positive radius
validShape(b) == IF isPolygon(b) THEN Len(b.vertices) >= 3 ELSE b.radius > 0

\* C11: no Polygon of fewer than 3 vertices and no Circle of radius <= 0
\* is ever constructed, so none is ever stepped.
C11_InvalidShapeRejected == stepped => validShape(before)

\* the return value of the last query
result == returned.value

proj(i) ==
    dotProduct(addVector(body.center,
                         rotatePoint(body.vertices[i + 1], body.orientationAngle)),
               returned.arg)

\* vertex i (counted from 0) of the queried polygon, in absolute coordinates
absVertex(i) ==
    addVector(body.center, rotatePoint(body.vertices[i + 1], body.orientationAngle))

\* the index after and before i around a polygon of n vertices
after(i, n) == (i + 1) % n

preceding(i, n) == (i + n - 1) % n

\* the first vertex of maximal projection
tipIndex(n) ==
    CHOOSE t \in 0 .. n - 1 :
        /\ \A j \in 0 .. n - 1 : proj(j) <= proj(t)
        /\ \A j \in 0 .. t - 1 : proj(j) < proj(t)

\* the start index of the significant face: the face before the tip when
\* the vertex before it projects further than the vertex after it
faceStart(n) ==
    IF proj(preceding(tipIndex(n), n)) > proj(after(tipIndex(n), n))
    THEN preceding(tipIndex(n), n)
    ELSE tipIndex(n)

\* C18: on a polygon of n >= 3 vertices getSignificantVertices(normal)
\* returns two vertices, those of indices i and (i + 1) mod n in that order;
\* one of them is significantVertex(normal), a vertex of maximal projection
\* on normal, and the other is its neighbour of larger projection, the next
\* vertex on a tie.
C18_SignificantVertices ==
    (lastOp.op = "getSignificantVertices" /\ Len(body.vertices) >= 3) =>
        LET n == Len(body.vertices)
            i == faceStart(n)
        IN  /\ Len(result) = 2
            /\ result = <<absVertex(i), absVertex(after(i, n))>>
            /\ significantVertex(body, returned.arg) = absVertex(tipIndex(n))
            /\ significantVertex(body, returned.arg) \in {result[1], result[2]}
            /\ i \in {tipIndex(n), preceding(tipIndex(n), n)}

\* a query on a moved and turned polygon whose tip has two neighbours of
\* equal projection
C18_Witness ==
    /\ lastOp.op = "getSignificantVertices" /\ Len(body.vertices) >= 4
    /\ body.center # InitCenter /\ body.orientationAngle # 0
    /\ proj(preceding(tipIndex(Len(body.vertices)), Len(body.vertices)))
         = proj(after(tipIndex(Len(body.vertices)), Len(body.vertices)))
    /\ result[1] = absVertex(tipIndex(Len(body.vertices)))

\* C19: on a polygon of n >= 3 vertices getAdjacentFaces(normal) returns
\* three edges, each from a vertex i to the vertex (i + 1) mod n with their
\* absolute coordinates; the last is the significant face, the first the
\* edge before it and the second the edge after it.  On a circle it
\* returns no edge.
C19_AdjacentFaces ==
    lastOp.op = "getAdjacentFaces" =>
        IF ~isPolygon(body) THEN result = <<>>
        ELSE Len(body.vertices) >= 3 =>
            LET n == Len(body.vertices)
                i == faceStart(n)
                edge(k) == [ startPoint |-> [coord |-> absVertex(k), index |-> k],
                             endPoint   |-> [coord |-> absVertex(after(k, n)),
                                             index |-> after(k, n)] ]
            IN  /\ Len(result) = 3
                /\ result[3] = edge(i)
                /\ result[1] = edge(preceding(i, n))
                /\ result[2] = edge(after(i, n))
                /\ <<result[3].startPoint.coord, result[3].endPoint.coord>>
                     = getSignificantVertices(body, returned.arg)

\* the faces of a moved and turned polygon whose significant face is the
\* one before the tip
C19_Witness ==
    /\ lastOp.op = "getAdjacentFaces" /\ isPolygon(body) /\ Len(body.vertices) >= 4
    /\ body.center # InitCenter /\ body.orientationAngle # 0
    /\ Len(result) = 3
    /\ result[3].endPoint.index = tipIndex(Len(body.vertices))
    /\ result[1].startPoint.index > result[1].endPoint.index


(***************************************************************************)
(* A sliding body: a velocity is set once, then step runs again and again  *)
(* with one deltaTime                                                      *)
(***************************************************************************)
RestVelSet ==
    { [x |-> 1000, y |-> 0], [x |-> 0, y |-> -2000], [x |-> -3000, y |-> 4000],
      [x |-> 2000, y |-> 2000], [x |-> -4000, y |-> -1000], [x |-> -6000, y |-> -3000],
      [x |-> 1000, y |-> 4000], [x |-> 5000, y |-> 0] }

RestDtSet == {100}

\* step(deltaTime), the deltaTime being that of the step before
RestStep ==
    \E dt \in RestDtSet :
        /\ lastOp.op = "step" => dt = lastOp.dt
        /\ phase = "idle"
        /\ heap' = [heap EXCEPT ![1] = step(heap[1], dt)]
        /\ prev' = heap
        /\ lastOp' = Op("step", 1, dt)
        /\ UNCHANGED <<worldVars, pure, nCalls, pending, returned>>

\* new Circle(...) with friction enabled, then setLinearVelocity(v)
InitRest ==
    /\ InitWorld
    /\ \E mass \in MassSet, v \in RestVelSet :
          heap = [o \in Obj |->
                    setLinearVelocity(
                        Circle("rigidbody", InitCenter, 1000, 0, mass, FALSE, TRUE), v)]
    /\ prev = heap
    /\ lastOp = Op("setLinearVelocity", 1, 0)
    /\ pure = FALSE
    /\ nCalls = 0
    /\ pending = <<>>
    /\ returned = NoReturn

NextRest == RestStep

\* the caller keeps stepping
SpecRest == InitRest /\ [][NextRest]_vars /\ WF_vars(RestStep)

\* once the velocity is (0, 0) a step leaves it and the center as they are
C20_StaysAtRest ==
    heap[1].linearVelocity = Zero =>
        heap'[1].linearVelocity = Zero /\ heap'[1].center = heap[1].center

MaxOrderCalls == 5

OrderIdents == {"a", "b"}

OrderDtSet == {1000}

OrderCall(name) ==
    /\ phase = "idle"
    /\ nCalls < MaxOrderCalls
    /\ nCalls' = nCalls + 1
    /\ lastOp' = Op(name, 0, 0)
    /\ UNCHANGED <<prev, pure, pending, returned>>

OrderAddRigidBody(ident, o) ==
    /\ ~ownedElsewhere(rigidBodyMap, ident, o)
    /\ OrderCall("addRigidBody")
    /\ rigidBodyList' = Append(rigidBodyList, o)
    /\ rigidBodyMap' = mapSet(rigidBodyMap, ident, o)
    /\ latest' = [latest EXCEPT ![ident] = o]
    /\ firstAdded' = IF latest[ident] # 0 THEN firstAdded
                     ELSE firstAdded \cup {<<i, ident>> : i \in {j \in Idents : latest[j] # 0}}
    /\ UNCHANGED <<heap, quadTree, phase, tickList, tickDt, possibleCombinations, log>>

OrderRemoveRigidBody(ident) ==
    /\ OrderCall("removeRigidBody")
    /\ rigidBodyMap' = IF mapHas(rigidBodyMap, ident) THEN mapDelete(rigidBodyMap, ident)
                                                      ELSE rigidBodyMap
    /\ latest' = [latest EXCEPT ![ident] = 0]
    /\ firstAdded' = {e \in firstAdded : e[1] # ident /\ e[2] # ident}
    /\ UNCHANGED <<heap, rigidBodyList, quadTree, phase, tickList, tickDt,
                   possibleCombinations, log>>

\* World.step up to the end of the forEach over the map
OrderStepCollect(dt) ==
    /\ OrderCall("World.step")
    /\ tickDt' = dt
    /\ tickList' = collectedList(rigidBodyMap)
    /\ quadTree' = rebuiltTree(quadTree, rigidBodyMap, heap)
    /\ log' = <<Event("clear", 0, <<>>)>>
              \o [i \in 1 .. Len(rigidBodyMap) |-> Event("insert", rigidBodyMap[i].body, <<>>)]
    /\ phase' = "broad"
    /\ UNCHANGED <<heap, rigidBodyList, rigidBodyMap, possibleCombinations, latest, firstAdded>>

InitOrder == InitW

NextOrder ==
    \/ \E ident \in OrderIdents, o \in Obj : OrderAddRigidBody(ident, o)
    \/ \E ident \in OrderIdents : OrderRemoveRigidBody(ident)
    \/ \E dt \in OrderDtSet : OrderStepCollect(dt)
    \/ WorldStepBroad
    \/ WorldStepNarrow
    \/ WorldStepIntegrate

SpecOrder == InitOrder /\ [][NextOrder]_vars

(***************************************************************************)
(* Properties of the iteration order (SpecOrder)                           *)
(***************************************************************************)
\* the identifier a mapped body is registered under
identOf(o) == CHOOSE ident \in added : latest[ident] = o

\* the bodies the running (or last) tick has done ev on, in the order of
\* the events
events(ev) ==
    LET sel == SelectSeq(log, LAMBDA e : e.ev = ev)
    IN  [i \in 1 .. Len(sel) |-> sel[i].obj]

\* s holds the current body of every mapped identifier once, an identifier
\* that was mapped earlier before one that was mapped later
inFirstAddedOrder(s) ==
    /\ Len(s) = Cardinality(added)
    /\ Range(s) = latestBodies
    /\ \A p, q \in 1 .. Len(s) :
          p < q => <<identOf(s[p]), identOf(s[q])>> \in firstAdded

\* C21: the world iterates its bodies in the order in which their
\* identifiers were first added: an add of a mapped identifier keeps its
\* place, a remove followed by an add puts it last.  A tick inserts the
\* bodies into the tree in this order, hands the phases the list in this
\* order and steps the bodies in this order.  The order is a function of
\* the add and remove calls alone, so equal call sequences give equal
\* orders.
C21_InsertionOrder ==
    /\ inFirstAddedOrder(getRigidBodyList(rigidBodyMap))
    /\ \A i, j \in added : i # j => (<<i, j>> \in firstAdded) # (<<j, i>> \in firstAdded)
    /\ phase # "idle" =>
          /\ inFirstAddedOrder(tickList)
          /\ events("insert") = tickList
    /\ tickDone =>
          /\ inFirstAddedOrder(tickList)
          /\ events("insert") = tickList
          /\ events("step") = tickList

\* a tick after a, b were added and a was added again with a third body:
\* the third body is inserted and stepped before the second
C21_Witness ==
    /\ tickDone
    /\ nCalls = 4
    /\ Len(rigidBodyList) = 3
    /\ Cardinality(Range(rigidBodyList)) = 3
    /\ tickList = <<rigidBodyList[3], rigidBodyList[2]>>
    /\ events("insert") = tickList
    /\ events("step") = tickList

====
